---- MODULE Spec2Model ----
(***************************************************************************)
(* Model of lib/Crypto/Random/OSRNG/posix.py: BaseRNG and DevURandomRNG,   *)
(* the facade over the OS entropy device.                                  *)
(*                                                                         *)
(* One facade object is followed from before its construction to its       *)
(* finalisation.  The device is the environment: every call of             *)
(* self.__file.read(k) is one step whose outcome (a chunk of 1..k bytes,   *)
(* an empty string, None, EINTR, another IOError) is chosen freely.        *)
(***************************************************************************)
EXTENDS Integers, Sequences, FiniteSets, TLC

\* ------------------------------------------------------------- bounds
\* largest N a caller passes to read()
MaxN == 3
\* most EINTR interruptions the environment raises within one read() call
MaxEintr == 2
\* bytes the device can supply before it only answers end-of-stream
DevLen == 38

\* ---------------------------------------------------- program constants
\* _selftest reads 16 bytes, twice
SelfTestLen == 16

VARIABLES
    pc,        \* "start" | "reading" | "idle" | "failed" | "dead"
    caller,    \* who is inside read(): "none" | "selftest1" | "selftest2" | "user"
    attrs,     \* instance attributes set so far, subset of {"name", "file", "closed"}
    closed,    \* self.closed (meaningful once "closed" \in attrs)
    file,      \* the file object f / self.__file: "none" | "open" | "closed"
    releases,  \* number of f.close() calls made so far
    path,      \* what self.name designates
    mode,      \* which byte stream the device behind the path yields
    devPos,    \* bytes the device has delivered so far
    reqN,      \* the argument N of the current / last read()
    data,      \* _read's local `data`
    st_data,   \* _selftest's local `data`
    st_data2,  \* _selftest's local `data2`
    ret,       \* outcome of the last finished operation
    op,        \* the current / last operation invoked from outside
    call,      \* history of the current / last read() call
    hist       \* history of the facade

vars == <<pc, caller, attrs, closed, file, releases, path, mode, devPos, reqN,
          data, st_data, st_data2, ret, op, call, hist>>

\* ------------------------------------------------------------ values
PathKinds == {"chr", "regular", "directory", "missing"}
Modes == {"counter", "replay", "stuck"}

IntArg(v) == [isint |-> TRUE, val |-> v]
NotIntArg == [isint |-> FALSE, val |-> 0]
ReadArgs == {NotIntArg} \cup {IntArg(v) : v \in -1..MaxN}

\* the with statement calls __exit__ with three arguments; a direct call may pass none
ExitArgCounts == {0, 3}

NoRet == [kind |-> "none", exc |-> "", msg |-> "", value |-> <<>>, requested |-> 0, got |-> 0]
Return(v) == [kind |-> "return", exc |-> "", msg |-> "", value |-> v, requested |-> 0, got |-> 0]
Raise(e, m) == [kind |-> "raise", exc |-> e, msg |-> m, value |-> <<>>, requested |-> 0, got |-> 0]
RaiseTruncated(n, g) ==
    [kind |-> "raise", exc |-> "AssertionError", msg |-> "produced truncated output",
     value |-> <<>>, requested |-> n, got |-> g]

NewCall == [eintrs |-> 0, starved |-> FALSE, failed |-> FALSE, reads |-> 0, stream |-> <<>>,
            asked |-> 0, before |-> 0]
NewHist == [closedOnce |-> FALSE, closedTwice |-> FALSE, everRead |-> FALSE,
            readOnReleased |-> FALSE, constructed |-> FALSE]

\* ------------------------------------------------------------ device
\* byte number i of the device's stream
Stream(m, i) ==
    CASE m = "counter" -> i
      [] m = "replay"  -> i % SelfTestLen
      [] OTHER         -> 0

\* the j bytes the device delivers from position p on
Chunk(m, p, j) == [x \in 1..j |-> Stream(m, p + x - 1)]

\* what one self.__file.read(k) can do
Outcomes(k) ==
    {[t |-> "raise", errno |-> e, len |-> 0] : e \in {"EINTR", "EIO"}}
    \cup {[t |-> "none", errno |-> "", len |-> 0], [t |-> "eof", errno |-> "", len |-> 0]}
    \cup {[t |-> "data", errno |-> "", len |-> j] : j \in 1..k}

\* the value d that self.__file.read returned
Delivered(o) == IF o.t = "data" THEN Chunk(mode, devPos, o.len) ELSE <<>>

\* ------------------------------------------------- the code's decisions
\* DevURandomRNG.__init__: open() itself fails on these
OpenFails(kind) == kind \in {"missing", "directory"}

IsCharDeviceAlways(kind) == TRUE
\* stat.S_ISCHR(fmode)
IsCharDevice(kind) == kind = "chr"

ReadCheckIgnoresClosed(isClosed, arg) ==
    IF ~arg.isint THEN "notint"
    ELSE IF arg.val < 0 THEN "negative"
    ELSE IF arg.val = 0 THEN "empty"
    ELSE "go"
ReadCheckTypeFirst(isClosed, arg) ==
    IF ~arg.isint THEN "notint"
    ELSE IF isClosed THEN "closed"
    ELSE IF arg.val < 0 THEN "negative"
    ELSE IF arg.val = 0 THEN "empty"
    ELSE "go"
ReadCheckZeroIsNegative(isClosed, arg) ==
    IF isClosed THEN "closed"
    ELSE IF ~arg.isint THEN "notint"
    ELSE IF arg.val <= 0 THEN "negative"
    ELSE "go"
ReadCheckNoNegative(isClosed, arg) ==
    IF isClosed THEN "closed"
    ELSE IF ~arg.isint THEN "notint"
    ELSE IF arg.val = 0 THEN "empty"
    ELSE "go"
\* BaseRNG.read, the checks before _read is called
ReadCheck(isClosed, arg) ==
    IF isClosed THEN "closed"
    ELSE IF ~arg.isint THEN "notint"
    ELSE IF arg.val < 0 THEN "negative"
    ELSE IF arg.val = 0 THEN "empty"
    ELSE "go"

ReadCheckError(c) ==
    CASE c = "closed"   -> Raise("ValueError", "I/O operation on closed file")
      [] c = "notint"   -> Raise("TypeError", "an integer is required")
      [] c = "negative" -> Raise("ValueError", "cannot read to end of infinite stream")
      [] OTHER          -> Return(<<>>)

ReadResultNoCheck(d, n) == Return(d)
\* BaseRNG.read, after _read returned d
ReadResult(d, n) ==
    IF Len(d) # n THEN RaiseTruncated(n, Len(d)) ELSE Return(d)

\* DevURandomRNG._read: while len(data) < N
LoopContinues(d, n) == Len(d) < n

RequestWhole(n, d) == n
\* DevURandomRNG._read: the size passed to self.__file.read
Request(n, d) == n - Len(d)

IsRetriedNever(errno) == FALSE
IsRetriedAlways(errno) == TRUE
\* DevURandomRNG._read: except IOError, e.errno == errno.EINTR -> continue
IsRetried(errno) == errno = "EINTR"

AccumulateLast(d, chunk) == chunk
AccumulateDrops(d, chunk) == d
AccumulatePrepends(d, chunk) == chunk \o d
\* DevURandomRNG._read: data += d
Accumulate(d, chunk) == d \o chunk

SelfTestDuplicateNever(d1, d2) == FALSE
\* BaseRNG._selftest: data == data2
SelfTestDuplicate(d1, d2) == d1 = d2

\* BaseRNG._selftest: len(data) != 16
SelfTestTruncated(d) == Len(d) # SelfTestLen

CloseReleasesAlways(isClosed) == TRUE
\* BaseRNG.close: if not self.closed: self._close()
CloseReleases(isClosed) == ~isClosed

\* BaseRNG.__exit__(self): the arguments it accepts besides self
ExitAccepts(nargs) == nargs = 0

\* ------------------------------------------------------------- Init
Init ==
    /\ pc = "start"
    /\ caller = "none"
    /\ attrs = {}
    /\ closed = FALSE
    /\ file = "none"
    /\ releases = 0
    /\ path = "chr"
    /\ mode = "counter"
    /\ devPos = 0
    /\ reqN = IntArg(0)
    /\ data = <<>>
    /\ st_data = <<>>
    /\ st_data2 = <<>>
    /\ ret = NoRet
    /\ op = "none"
    /\ call = NewCall
    /\ hist = NewHist

\* ------------------------------------------------- construction
\* the constructor raises r: the half-built object is left to the collector
ConstructFails(r, rel) ==
    /\ pc' = "failed"
    /\ caller' = "none"
    /\ ret' = r
    /\ releases' = releases + rel

\* self.read(SelfTestLen) is entered from _selftest as `who`
SelfTestRead(who) ==
    LET c == ReadCheck(FALSE, IntArg(SelfTestLen)) IN
    /\ reqN' = IntArg(SelfTestLen)
    /\ data' = <<>>
    /\ call' = NewCall
    /\ IF c = "go"
       THEN /\ pc' = "reading"
            /\ caller' = who
            /\ ret' = NoRet
       ELSE /\ pc' = "failed"
            /\ caller' = "none"
            /\ ret' = ReadCheckError(c)

\* DevURandomRNG.__init__(devname), up to the first raw read of the self-test
Construct(kind, m) ==
    /\ pc = "start"
    /\ op' = "construct"
    /\ path' = kind
    /\ mode' = m
    /\ UNCHANGED <<devPos, st_data, st_data2, hist>>
    /\ IF OpenFails(kind)
       THEN /\ ConstructFails(Raise("IOError", "open"), 0)
            /\ attrs' = {"name"}
            /\ UNCHANGED <<closed, file, reqN, data, call>>
       ELSE IF ~IsCharDevice(kind)
       THEN /\ ConstructFails(Raise("TypeError", "not a character special device"), 1)
            /\ attrs' = {"name"}
            /\ file' = "closed"
            /\ UNCHANGED <<closed, reqN, data, call>>
       ELSE /\ attrs' = {"name", "file", "closed"}
            /\ file' = "open"
            /\ closed' = FALSE
            /\ releases' = releases
            /\ SelfTestRead("selftest1")

\* ------------------------------------------------- read
\* read() has finished with outcome r and _read's data nd: back in its caller
\* (c and h are the histories after this step)
Finish(r, nd, c, h) ==
    IF caller = "user"
    THEN /\ pc' = "idle"
         /\ caller' = "none"
         /\ ret' = r
         /\ data' = nd
         /\ call' = c
         /\ hist' = h
         /\ UNCHANGED <<reqN, st_data, st_data2>>
    ELSE IF r.kind = "raise"
    THEN /\ pc' = "failed"
         /\ caller' = "none"
         /\ ret' = r
         /\ data' = nd
         /\ call' = c
         /\ hist' = h
         /\ UNCHANGED <<reqN, st_data, st_data2>>
    ELSE IF caller = "selftest1"
    THEN /\ st_data' = r.value
         /\ hist' = h
         /\ UNCHANGED st_data2
         /\ IF SelfTestTruncated(r.value)
            THEN /\ pc' = "failed"
                 /\ caller' = "none"
                 /\ ret' = Raise("AssertionError", "read truncated")
                 /\ data' = nd
                 /\ call' = c
                 /\ UNCHANGED reqN
            ELSE SelfTestRead("selftest2")
    ELSE /\ st_data2' = r.value
         /\ data' = nd
         /\ call' = c
         /\ caller' = "none"
         /\ UNCHANGED <<reqN, st_data>>
         /\ IF SelfTestDuplicate(st_data, r.value)
            THEN /\ pc' = "failed"
                 /\ ret' = Raise("AssertionError", "OS RNG returned duplicate data")
                 /\ hist' = h
            ELSE /\ pc' = "idle"
                 /\ ret' = Return(<<>>)
                 /\ hist' = [h EXCEPT !.constructed = TRUE]

\* one iteration of the loop of DevURandomRNG._read: self.__file.read(N - len(data))
\* with outcome o, and everything the code does until the next raw read
ReadIteration(o) ==
    LET n == reqN.val
        h == [hist EXCEPT !.everRead = TRUE,
                          !.readOnReleased = hist.readOnReleased \/ file # "open"]
        \* what the raw read was asked and what it answered, before the code reacts
        c == [call EXCEPT !.reads = call.reads + 1,
                          !.asked = Request(n, data),
                          !.before = Len(call.stream),
                          !.eintrs = IF file = "open" /\ o.errno = "EINTR"
                                     THEN call.eintrs + 1 ELSE call.eintrs,
                          !.failed = file # "open" \/ (o.t = "raise" /\ o.errno # "EINTR")] IN
    IF file # "open"
    THEN \* the file object refuses: ValueError, not caught by `except IOError`
         /\ Finish(Raise("ValueError", "I/O operation on closed file"), data, c, h)
         /\ UNCHANGED devPos
    ELSE IF o.t = "raise"
    THEN /\ UNCHANGED devPos
         /\ IF IsRetried(o.errno)
            THEN /\ call' = c
                 /\ hist' = h
                 /\ UNCHANGED <<pc, caller, ret, data, reqN, st_data, st_data2>>
            ELSE Finish(Raise("IOError", o.errno), data, c, h)
    ELSE IF o.t \in {"none", "eof"}
    THEN /\ UNCHANGED devPos
         /\ Finish(ReadResult(data, n), data, [c EXCEPT !.starved = TRUE], h)
    ELSE LET d == Delivered(o)
             nd == Accumulate(data, d)
             c2 == [c EXCEPT !.stream = call.stream \o d] IN
         /\ devPos' = devPos + o.len
         /\ IF LoopContinues(nd, n)
            THEN /\ data' = nd
                 /\ call' = c2
                 /\ hist' = h
                 /\ UNCHANGED <<pc, caller, ret, reqN, st_data, st_data2>>
            ELSE Finish(ReadResult(nd, n), nd, c2, h)

ReadLoopStep ==
    /\ pc = "reading"
    /\ \E o \in Outcomes(Request(reqN.val, data)) :
          /\ o.errno = "EINTR" => call.eintrs < MaxEintr
          /\ o.t = "data" => devPos + o.len <= DevLen
          /\ ReadIteration(o)
    /\ UNCHANGED <<attrs, closed, file, releases, path, mode, op>>

\* BaseRNG.read(N), called on the constructed facade, up to its first raw read
Read(arg) ==
    LET c == ReadCheck(closed, arg) IN
    /\ pc = "idle"
    /\ op' = "read"
    /\ reqN' = arg
    /\ UNCHANGED <<attrs, closed, file, releases, path, mode, devPos, st_data, st_data2, hist>>
    /\ data' = <<>>
    /\ call' = NewCall
    /\ IF c = "go" /\ LoopContinues(<<>>, arg.val)
       THEN /\ pc' = "reading"
            /\ caller' = "user"
            /\ ret' = NoRet
       ELSE /\ pc' = "idle"
            /\ caller' = "none"
            /\ ret' = IF c = "go" THEN ReadResult(<<>>, arg.val) ELSE ReadCheckError(c)

\* ------------------------------------------------- close, flush, with, del
BaseRNG_closeKeepsFlag ==
    /\ file' = IF CloseReleases(closed) THEN "closed" ELSE file
    /\ releases' = IF CloseReleases(closed) THEN releases + 1 ELSE releases
    /\ closed' = closed
    /\ hist' = [hist EXCEPT !.closedOnce = TRUE,
                            !.closedTwice = hist.closedTwice \/ hist.closedOnce]
\* the body of BaseRNG.close
BaseRNG_close ==
    /\ file' = IF CloseReleases(closed) THEN "closed" ELSE file
    /\ releases' = IF CloseReleases(closed) THEN releases + 1 ELSE releases
    /\ closed' = TRUE
    /\ hist' = [hist EXCEPT !.closedOnce = TRUE,
                            !.closedTwice = hist.closedTwice \/ hist.closedOnce]

\* facade.close()
Close ==
    /\ pc = "idle"
    /\ op' = "close"
    /\ BaseRNG_close
    /\ ret' = Return(<<>>)
    /\ UNCHANGED <<pc, caller, attrs, path, mode, devPos, reqN, data, st_data, st_data2, call>>

FlushRaisesWhenClosed ==
    /\ pc = "idle"
    /\ op' = "flush"
    /\ ret' = IF closed THEN Raise("ValueError", "I/O operation on closed file")
              ELSE Return(<<>>)
    /\ UNCHANGED <<pc, caller, attrs, closed, file, releases, path, mode, devPos, reqN,
                   data, st_data, st_data2, call, hist>>
\* facade.flush()
Flush ==
    /\ pc = "idle"
    /\ op' = "flush"
    /\ ret' = Return(<<>>)
    /\ UNCHANGED <<pc, caller, attrs, closed, file, releases, path, mode, devPos, reqN,
                   data, st_data, st_data2, call, hist>>

\* facade.__enter__()
Enter ==
    /\ pc = "idle"
    /\ op' = "enter"
    /\ ret' = Return(<<>>)
    /\ UNCHANGED <<pc, caller, attrs, closed, file, releases, path, mode, devPos, reqN,
                   data, st_data, st_data2, call, hist>>

\* facade.__exit__ called with nargs arguments besides self
Exit(nargs) ==
    /\ pc = "idle"
    /\ op' = IF nargs = 0 THEN "exit" ELSE "with_exit"
    /\ UNCHANGED <<pc, caller, attrs, path, mode, devPos, reqN, data, st_data, st_data2, call>>
    /\ IF ExitAccepts(nargs)
       THEN /\ BaseRNG_close
            /\ ret' = Return(<<>>)
       ELSE /\ ret' = Raise("TypeError", "__exit__() takes exactly 1 argument")
            /\ UNCHANGED <<closed, file, releases, hist>>

DelLeaks ==
    /\ pc \in {"idle", "failed"}
    /\ pc' = "dead"
    /\ op' = "del"
    /\ ret' = Return(<<>>)
    /\ UNCHANGED <<caller, attrs, path, mode, devPos, reqN, data, st_data, st_data2, call,
                   closed, file, releases, hist>>
\* BaseRNG.__del__, run by the collector once the object is unreachable;
\* what it raises is printed and dropped
Del ==
    /\ pc \in {"idle", "failed"}
    /\ pc' = "dead"
    /\ op' = "del"
    /\ UNCHANGED <<caller, attrs, path, mode, devPos, reqN, data, st_data, st_data2, call>>
    /\ IF "closed" \in attrs
       THEN /\ BaseRNG_close
            /\ ret' = Return(<<>>)
       ELSE /\ ret' = Raise("AttributeError", "closed")
            /\ UNCHANGED <<closed, file, releases, hist>>

Next ==
    \/ \E kind \in PathKinds, m \in Modes : Construct(kind, m)
    \/ ReadLoopStep
    \/ \E arg \in ReadArgs : Read(arg)
    \/ Close
    \/ Flush
    \/ Enter
    \/ \E nargs \in ExitArgCounts : Exit(nargs)
    \/ Del

Spec == Init /\ [][Next]_vars

\* the blocking self.__file.read returns, so the loop of _read takes its next step
LiveSpec == Spec /\ WF_vars(ReadLoopStep)

\* the state of the facade, from self.closed and from where __init__ stands
State ==
    IF "closed" \in attrs /\ closed THEN "Closed"
    ELSE IF pc = "idle" \/ (pc = "reading" /\ caller = "user") THEN "Ready"
    ELSE "Uninitialized"

\* ------------------------------------------------- the errors of the spec
ClosedHandleError == Raise("ValueError", "I/O operation on closed file")
InvalidArgument == Raise("ValueError", "cannot read to end of infinite stream")
OpenErrors == {Raise("IOError", "open"), Raise("TypeError", "not a character special device")}

\* a read() called from outside has finished
UserReadDone == op = "read" /\ pc = "idle"
\* the constructor has raised out of a self-test read
SelfTestReadFailed == op = "construct" /\ pc = "failed" /\ "closed" \in attrs

\* ------------------------------------------------- claims
\* C1: a read(n) with n >= 0 that has finished either raised or returned a buffer of
\* exactly n bytes, whatever the device answered; so did both reads of the self-test.
C1_ExactLengthOrError ==
    /\ UserReadDone => ret.kind \in {"return", "raise"}
    /\ (UserReadDone /\ reqN.isint /\ reqN.val >= 0 /\ ret.kind = "return")
          => Len(ret.value) = reqN.val
    /\ caller = "selftest2" => Len(st_data) = SelfTestLen
    /\ hist.constructed => Len(st_data2) = SelfTestLen

\* C1 witness: a read(2) served by short reads and an interruption returned 2 bytes
C1_Witness ==
    /\ UserReadDone /\ reqN = IntArg(2) /\ ret.kind = "return" /\ Len(ret.value) = 2
    /\ call.reads >= 3 /\ call.eintrs >= 1

\* C2: when the device answers no data (None or an empty string) before n bytes are
\* there, read(n) raises the truncated-output error with requested = n and got = the
\* number of bytes the device delivered in this call, and hands back no buffer.
C2_StarvedReadRaisesTruncated ==
    (call.starved /\ reqN.val > 0 /\ (UserReadDone \/ SelfTestReadFailed))
        => ret = RaiseTruncated(reqN.val, Len(call.stream))

\* C2 witness: read(3) starved after two raw reads had delivered one byte each
C2_Witness ==
    /\ UserReadDone /\ call.starved /\ reqN = IntArg(3)
    /\ call.reads = 3 /\ Len(call.stream) = 2 /\ ret.got = 2 /\ ret.requested = 3

\* C3: once a close() has completed, every read(n) with n > 0 is refused with the
\* closed-handle error before any raw read, whatever was called in between.
C3_ReadAfterCloseFails ==
    (hist.closedOnce /\ op = "read" /\ reqN.isint /\ reqN.val > 0)
        => (pc = "idle" /\ ret = ClosedHandleError /\ call.reads = 0)

\* C3 witness: a read(1) refused after two closes
C3_Witness ==
    /\ hist.closedTwice /\ op = "read" /\ reqN = IntArg(1) /\ ret = ClosedHandleError

\* C4: a close() on a facade on which a close has already completed returns normally,
\* does not call the release of the handle again and leaves the facade closed.
C4_CloseIdempotent ==
    [][(pc = "idle" /\ hist.closedOnce /\ op' = "close")
          => (/\ ret' = Return(<<>>)
              /\ releases' = releases
              /\ file' = file
              /\ closed /\ closed'
              /\ pc' = "idle"
              /\ attrs' = attrs)]_vars

\* C4 witness: a second close() has returned and the handle was released once
C4_Witness ==
    /\ hist.closedTwice /\ op = "close" /\ ret = Return(<<>>) /\ releases = 1 /\ file = "closed"

\* C5: after any explicit close(), scope exit or destructor run on a facade that
\* holds a handle, the handle has been released exactly once (by the first of them).
C5_ReleasedOnceByFirstTeardown ==
    /\ releases <= 1
    /\ ("file" \in attrs /\ op \in {"close", "exit", "with_exit", "del"}) => releases = 1

\* C6: the facade becomes Ready only if both self-test reads returned exactly 16 bytes
\* and the samples differ; a self-test read that starves, or a device that repeats
\* its sample, makes the constructor raise the self-test error.
C6_SelfTestGate ==
    /\ hist.constructed
          => /\ Len(st_data) = SelfTestLen
             /\ Len(st_data2) = SelfTestLen
             /\ st_data # st_data2
             /\ mode = "counter"
    /\ (SelfTestReadFailed /\ call.starved) => ret.exc = "AssertionError"
    /\ (SelfTestReadFailed /\ ~call.starved /\ ~call.failed)
          => /\ ret = Raise("AssertionError", "OS RNG returned duplicate data")
             /\ st_data = st_data2
             /\ mode # "counter"

\* C6 witness: two full samples, identical, and the constructor raised
C6_Witness ==
    /\ SelfTestReadFailed /\ Len(st_data) = SelfTestLen /\ st_data = st_data2
    /\ mode = "replay" /\ ret.exc = "AssertionError"

\* C7: construction over a path that is not a character device raises the open error;
\* the object never becomes a facade, keeps no handle, and no raw read is ever made.
C7_NonCharDeviceRejected ==
    (path # "chr" /\ pc # "start")
        => /\ ~hist.constructed
           /\ ~hist.everRead
           /\ pc \in {"failed", "dead"}
           /\ "file" \notin attrs
           /\ file # "open"
           /\ op = "construct" => ret \in OpenErrors

\* C7 witness: a regular file was opened, rejected and closed again
C7_Witness ==
    /\ path = "regular" /\ pc = "failed" /\ releases = 1
    /\ ret = Raise("TypeError", "not a character special device")

\* C8: a raw read interrupted by a signal leaves the accumulated data, the position
\* in the loop and the caller untouched and raises nothing; a read(n) that was
\* neither starved nor hit by another I/O error returns all n delivered bytes.
C8_EintrRetried ==
    /\ [][(pc = "reading" /\ call'.eintrs = call.eintrs + 1)
             => (/\ pc' = "reading"
                 /\ data' = data
                 /\ ret' = ret
                 /\ caller' = caller
                 /\ reqN' = reqN
                 /\ devPos' = devPos)]_vars
    /\ [](ret.msg # "EINTR")
    /\ []((UserReadDone /\ call.reads > 0 /\ ~call.starved /\ ~call.failed)
             => (ret = Return(call.stream) /\ Len(call.stream) = reqN.val))

\* C8 witness: read(2) was interrupted twice and still returned its 2 bytes
C8_Witness ==
    /\ UserReadDone /\ reqN = IntArg(2) /\ call.eintrs = 2 /\ call.reads = 4
    /\ ret = Return(call.stream) /\ Len(ret.value) = 2

\* C9 as stated: read(0) always returns an empty buffer, without device I/O.
C9_ReadZeroAlwaysEmpty ==
    (UserReadDone /\ reqN = IntArg(0)) => (ret = Return(<<>>) /\ call.reads = 0)

\* C9 amended: read(0) never makes a raw read; it returns an empty buffer while no
\* close has completed, and raises the closed-handle error afterwards.
C9_ReadZero ==
    (op = "read" /\ reqN = IntArg(0))
        => /\ pc = "idle"
           /\ call.reads = 0
           /\ ret = IF hist.closedOnce THEN ClosedHandleError ELSE Return(<<>>)

\* C9 witness: read(0) on an open facade returned the empty buffer
C9_Witness ==
    /\ UserReadDone /\ reqN = IntArg(0) /\ ~hist.closedOnce /\ ret = Return(<<>>)
    /\ file = "open"

\* C10 as stated: read(-1) raises the invalid-argument error in every state.
C10_ReadNegativeAlwaysInvalid ==
    (UserReadDone /\ reqN = IntArg(-1)) => (ret = InvalidArgument /\ call.reads = 0)

\* C10 amended: read(-1) never makes a raw read; it raises the invalid-argument error
\* while no close has completed, and the closed-handle error afterwards.
C10_ReadNegative ==
    (op = "read" /\ reqN = IntArg(-1))
        => /\ pc = "idle"
           /\ call.reads = 0
           /\ ret = IF hist.closedOnce THEN ClosedHandleError ELSE InvalidArgument

\* C10 witness: read(-1) on an open facade raised the invalid-argument error
C10_Witness ==
    /\ UserReadDone /\ reqN = IntArg(-1) /\ ~hist.closedOnce /\ ret = InvalidArgument
    /\ file = "open"

\* C11 as stated: on a facade on which a close has completed, read (any argument)
\* and flush fail with the closed-handle error.
C11_ClosedRejectsReadAndFlush ==
    (hist.closedOnce /\ pc = "idle" /\ op \in {"read", "flush"}) => ret = ClosedHandleError

\* C11 amended: on a facade on which a close has completed, read fails with the
\* closed-handle error for every argument (integer or not); flush does not fail.
C11_ClosedRejectsRead ==
    /\ (hist.closedOnce /\ op = "read") => (pc = "idle" /\ ret = ClosedHandleError)
    /\ (hist.closedOnce /\ pc = "idle" /\ op = "flush") => ret = Return(<<>>)

\* C11 witness: a read with a non-integer argument refused on a closed facade
C11_Witness ==
    /\ hist.closedOnce /\ op = "read" /\ reqN = NotIntArg /\ ret = ClosedHandleError

\* C12: flush() returns normally in every state, makes no raw read and changes neither
\* the closed flag nor the handle nor anything else of the facade.
C12_FlushIsNoOp ==
    [][(op' = "flush")
          => (/\ ret' = Return(<<>>)
              /\ pc = "idle" /\ pc' = "idle"
              /\ UNCHANGED <<closed, file, releases, attrs, devPos, call, hist, data>>)]_vars

\* C12 witness: flush() returned on a closed facade, the handle released once
C12_Witness ==
    /\ op = "flush" /\ ret = Return(<<>>) /\ closed /\ file = "closed" /\ releases = 1

\* C13: the facade is Uninitialized, Ready or Closed and only moves forward: Closed is
\* never left and its handle never reopened, Ready is left only for Closed and entered
\* only from Uninitialized by the second self-test read returning a differing 16-byte
\* sample; a Ready facade holds the open handle, a Closed one a released handle.
C13_StateMachine ==
    /\ [](State = "Ready" => (file = "open" /\ hist.constructed))
    /\ [](State = "Closed" => file = "closed")
    /\ [][/\ State = "Closed" => (State' = "Closed" /\ file' = "closed")
          /\ State = "Ready" => State' \in {"Ready", "Closed"}
          /\ (State # "Ready" /\ State' = "Ready")
                => /\ State = "Uninitialized"
                   /\ caller = "selftest2"
                   /\ Len(st_data') = SelfTestLen
                   /\ Len(st_data2') = SelfTestLen
                   /\ st_data' # st_data2']_vars

\* C13 witness: a facade that was Ready is Closed and a later read left it so
C13_Witness ==
    /\ State = "Closed" /\ hist.constructed /\ op = "read" /\ pc = "idle" /\ file = "closed"

\* C14: after the teardown of a facade (a with scope left, or the destructor run) the
\* facade is closed and its handle has been released, once.
C14_TeardownCloses ==
    ("closed" \in attrs /\ op \in {"with_exit", "del"})
        => (closed /\ file = "closed" /\ releases = 1)

\* C15: an I/O error other than EINTR raised by a raw read ends the call at once: it is
\* raised to the caller as it is, with no buffer, no further raw read is made in the
\* call and the device position is not moved.
C15_OtherErrorsSurface ==
    /\ [](call.failed => pc # "reading")
    /\ []((call.failed /\ (UserReadDone \/ SelfTestReadFailed)) => ret = Raise("IOError", "EIO"))
    /\ [][(call'.failed /\ ~call.failed)
             => (/\ pc = "reading" /\ pc' \in {"idle", "failed"}
                 /\ call'.reads = call.reads + 1
                 /\ call'.stream = call.stream
                 /\ data' = data
                 /\ devPos' = devPos)]_vars
    /\ [][call.failed => (call'.reads = call.reads \/ call' = NewCall)]_vars

\* C15 witness: read(3) got two bytes, then EIO: IOError raised, nothing returned
C15_Witness ==
    /\ UserReadDone /\ reqN = IntArg(3) /\ call.failed /\ Len(call.stream) = 2
    /\ ret = Raise("IOError", "EIO") /\ ret.value = <<>>

\* the raw reads of the current / last read() call that were not interrupted
Uninterrupted == call.reads - call.eintrs

\* C16: every raw read that is not interrupted either adds at least one byte to the
\* accumulated data or ends the call, a call read(n) makes at most n of them, and,
\* with the interruptions bounded and every raw read returning, a call that is in its
\* loop eventually leaves it (with a result or an error).
C16_ReadTerminates ==
    /\ [][(pc = "reading" /\ call'.reads = call.reads + 1 /\ call'.eintrs = call.eintrs)
             => (\/ Len(data') > Len(data)
                 \/ pc' # "reading"
                 \/ caller' # caller)]_vars
    /\ [](Uninterrupted <= (IF reqN.isint /\ reqN.val > 0 THEN reqN.val ELSE 0))
    /\ [](pc = "reading" => Uninterrupted < reqN.val)
    /\ ((pc = "reading" /\ caller = "user") ~> UserReadDone)
    /\ ((pc = "reading" /\ caller # "user") ~> (pc \in {"idle", "failed", "dead"}))

\* C16 witness: a read(3) that took three uninterrupted raw reads and two interrupted
\* ones has completed
C16_Witness ==
    /\ UserReadDone /\ reqN = IntArg(3) /\ Uninterrupted = 3 /\ call.eintrs = 2
    /\ ret.kind = "return"

\* C17: what a successful read(n) returns is the bytes the device delivered during that
\* call, in order: the n bytes of the device's stream that end at its present position;
\* the self-test samples are the first and the second 16 bytes of the stream.
C17_ReturnsDeliveredBytes ==
    /\ (UserReadDone /\ ret.kind = "return" /\ reqN.isint /\ reqN.val > 0)
          => /\ ret.value = call.stream
             /\ ret.value = Chunk(mode, devPos - reqN.val, reqN.val)
             /\ devPos >= 2 * SelfTestLen + reqN.val
    /\ hist.constructed
          => /\ st_data = Chunk(mode, 0, SelfTestLen)
             /\ st_data2 = Chunk(mode, SelfTestLen, SelfTestLen)

\* C17 witness: the second read(3) on the facade, served in three chunks
C17_Witness ==
    /\ UserReadDone /\ reqN = IntArg(3) /\ ret.kind = "return" /\ call.reads = 3
    /\ devPos = 2 * SelfTestLen + 6 /\ ret.value[1] = devPos - 3 /\ ret.value[3] = devPos - 1

\* C18: no raw read is ever made on a handle that has been released; while a call is in
\* the loop of _read the handle is open and has never been released.
C18_NoReadOnReleasedHandle ==
    /\ ~hist.readOnReleased
    /\ pc = "reading" => (file = "open" /\ releases = 0)
    /\ releases > 0 => (pc # "reading" /\ file = "closed")

\* C18 witness: after the release a read(2) was called and made no raw read
C18_Witness ==
    /\ releases = 1 /\ file = "closed" /\ op = "read" /\ reqN = IntArg(2) /\ call.reads = 0
    /\ hist.everRead /\ ~hist.readOnReleased

\* C19: every raw read of a call read(n) is asked for n minus the bytes delivered so far
\* in the call, which is at least 1; the accumulated data never exceeds n bytes, and a
\* call that returns has accumulated exactly n.
C19_RequestsWhatIsMissing ==
    /\ call.reads > 0
          => /\ call.asked = reqN.val - call.before
             /\ call.asked >= 1
             /\ Len(call.stream) - call.before <= call.asked
    /\ Len(call.stream) <= (IF reqN.isint /\ reqN.val > 0 THEN reqN.val ELSE 0)
    /\ pc = "reading" => (data = call.stream /\ Len(data) < reqN.val)
    /\ (UserReadDone /\ ret.kind = "return" /\ call.reads > 0) => Len(data) = reqN.val

\* C19 witness: the last raw read of a read(3) was asked for the one missing byte
C19_Witness ==
    /\ UserReadDone /\ reqN = IntArg(3) /\ call.before = 2 /\ call.asked = 1
    /\ Len(call.stream) = 3 /\ ret.kind = "return"

\* C20: an object whose construction failed holds no open handle after its teardown and
\* its handle was released once: a rejected non-character device is released before the
\* error is raised and not again by the teardown; a handle opened for a failed self-test
\* is open until the teardown and released by it; a failed open leaves nothing to release.
C20_FailedConstructionReleasesOnce ==
    (~hist.constructed /\ pc \in {"failed", "dead"})
        => /\ releases <= 1
           /\ file = "none" => releases = 0
           /\ (file # "none" /\ "closed" \notin attrs) => (releases = 1 /\ file = "closed")
           /\ (file # "none" /\ "closed" \in attrs /\ pc = "failed")
                 => (releases = 0 /\ file = "open")
           /\ (file # "none" /\ pc = "dead") => (releases = 1 /\ file = "closed")

\* C20 witness: the object of a failed self-test was finalised and its handle released
C20_Witness ==
    /\ ~hist.constructed /\ pc = "dead" /\ "closed" \in attrs /\ releases = 1
    /\ file = "closed" /\ st_data = st_data2 /\ Len(st_data) = SelfTestLen

====
